---- MODULE Spec2Model ----
(***************************************************************************)
(* A model of csv/stringify.ts: stringify(data, options) and its helpers   *)
(* normalizeColumn, getValuesFromItem and getEscapedString.                *)
(*                                                                         *)
(* Text is a sequence of one-character strings.  A JavaScript value is a   *)
(* record [t, s, n, keys, kids]: t is the kind of value, s the text of a   *)
(* string, n a number in half units (n = 3 is 1.5) or a boolean as 0/1,    *)
(* keys and kids the own keys and the members of an object, in insertion   *)
(* order, or kids alone the elements of an array.                          *)
(***************************************************************************)
EXTENDS Integers, Sequences, FiniteSets, TLC

VARIABLES data, columns, sep, headers, bom,
          pc, normalizedColumns, output, idx, values, fields, error, result

vars == <<data, columns, sep, headers, bom,
          pc, normalizedColumns, output, idx, values, fields, error, result>>

inputs == <<data, columns, sep, headers, bom>>

\* ------------------------------------------------------------------------
\* Bounds of the model
\* ------------------------------------------------------------------------
MaxRecords == 2

MaxColumns == 2

\* ------------------------------------------------------------------------
\* Constants of csv/stringify.ts
\* ------------------------------------------------------------------------
QUOTE == "\""

LF == "\n"

CR == "\r"

CRLF == <<CR, LF>>

BYTE_ORDER_MARK == <<"BOM">>

\* ------------------------------------------------------------------------
\* JavaScript values
\* ------------------------------------------------------------------------
Undefined == [t |-> "undefined", s |-> <<>>, n |-> 0, keys |-> <<>>, kids |-> <<>>]

Null == [t |-> "null", s |-> <<>>, n |-> 0, keys |-> <<>>, kids |-> <<>>]

Str(text) == [t |-> "string", s |-> text, n |-> 0, keys |-> <<>>, kids |-> <<>>]

Num(halves) == [t |-> "number", s |-> <<>>, n |-> halves, keys |-> <<>>, kids |-> <<>>]

Bool(b) == [t |-> "boolean", s |-> <<>>, n |-> IF b THEN 1 ELSE 0, keys |-> <<>>, kids |-> <<>>]

Arr(elems) == [t |-> "array", s |-> <<>>, n |-> 0, keys |-> <<>>, kids |-> elems]

Obj(ks, vs) == [t |-> "object", s |-> <<>>, n |-> 0, keys |-> ks, kids |-> vs]

\* typeof value
TypeOf(v) ==
  IF v.t \in {"null", "array", "object"} THEN "object" ELSE v.t

\* Array.isArray(value)
IsArray(v) == v.t = "array"

\* ------------------------------------------------------------------------
\* Text
\* ------------------------------------------------------------------------
\* str.includes(sub)
Includes(str, sub) ==
  \E i \in 0..(Len(str) - Len(sub)) : SubSeq(str, i + 1, i + Len(sub)) = sub

RECURSIVE ReplaceAllQuote(_)
\* str.replaceAll(QUOTE, QUOTE + QUOTE)
ReplaceAllQuote(str) ==
  IF str = <<>> THEN <<>>
  ELSE (IF Head(str) = QUOTE THEN <<QUOTE, QUOTE>> ELSE <<Head(str)>>)
         \o ReplaceAllQuote(Tail(str))

RECURSIVE Join(_, _)
\* parts.join(glue)
Join(parts, glue) ==
  IF parts = <<>> THEN <<>>
  ELSE IF Len(parts) = 1 THEN parts[1]
  ELSE parts[1] \o glue \o Join(Tail(parts), glue)

Digit(d) == <<"0", "1", "2", "3", "4", "5", "6", "7", "8", "9">>[d + 1]

RECURSIVE NatToText(_)
NatToText(k) ==
  IF k < 10 THEN <<Digit(k)>> ELSE NatToText(k \div 10) \o <<Digit(k % 10)>>

\* String(number), the number given in half units
NumberToText(h) ==
  LET a == IF h < 0 THEN 0 - h ELSE h
      whole == NatToText(a \div 2)
      frac == IF a % 2 = 1 THEN <<".", "5">> ELSE <<>>
  IN (IF h < 0 THEN <<"-">> ELSE <<>>) \o whole \o frac

\* String(value) of a value that is not an array or a plain object
ToText(v) ==
  CASE v.t = "string" -> v.s
    [] v.t = "number" -> NumberToText(v.n)
    [] v.t = "boolean" -> IF v.n = 1 THEN <<"t", "r", "u", "e">>
                          ELSE <<"f", "a", "l", "s", "e">>
    [] v.t = "null" -> <<"n", "u", "l", "l">>
    [] OTHER -> <<"u", "n", "d", "e", "f", "i", "n", "e", "d">>

RECURSIVE JsonEscape(_)
\* the escapes JSON.stringify applies inside a string literal
JsonEscape(str) ==
  IF str = <<>> THEN <<>>
  ELSE (CASE Head(str) = QUOTE -> <<"\\", QUOTE>>
          [] Head(str) = "\\" -> <<"\\", "\\">>
          [] Head(str) = LF -> <<"\\", "n">>
          [] Head(str) = CR -> <<"\\", "r">>
          [] OTHER -> <<Head(str)>>)
         \o JsonEscape(Tail(str))

JsonQuote(str) == <<QUOTE>> \o JsonEscape(str) \o <<QUOTE>>

RECURSIVE JsonStringify(_), JsonElements(_, _), JsonMembers(_, _, _)
\* JSON.stringify(value)
JsonStringify(v) ==
  CASE v.t = "string" -> JsonQuote(v.s)
    [] v.t = "array" -> <<"[">> \o Join(JsonElements(v.kids, 1), <<",">>) \o <<"]">>
    [] v.t = "object" -> <<"{">> \o Join(JsonMembers(v.keys, v.kids, 1), <<",">>) \o <<"}">>
    [] OTHER -> ToText(v)

\* the elements of an array: undefined is written as null
JsonElements(kids, i) ==
  IF i > Len(kids) THEN <<>>
  ELSE <<IF kids[i].t = "undefined" THEN ToText(Null) ELSE JsonStringify(kids[i])>>
         \o JsonElements(kids, i + 1)

\* the members of an object: a member whose value is undefined is left out
JsonMembers(ks, kids, i) ==
  IF i > Len(ks) THEN <<>>
  ELSE (IF kids[i].t = "undefined" THEN <<>>
        ELSE <<JsonQuote(ks[i]) \o <<":">> \o JsonStringify(kids[i])>>)
         \o JsonMembers(ks, kids, i + 1)

\* value[prop] on an array, prop a number
ArrayGet(v, prop) ==
  IF prop.n % 2 = 0 /\ prop.n \div 2 >= 0 /\ prop.n \div 2 < Len(v.kids)
  THEN v.kids[(prop.n \div 2) + 1]
  ELSE Undefined

\* value[prop] on a plain object: the key is the text of prop
ObjectGet(v, prop) ==
  LET key == ToText(prop)
  IN IF \E i \in 1..Len(v.keys) : v.keys[i] = key
     THEN v.kids[CHOOSE i \in 1..Len(v.keys) : v.keys[i] = key]
     ELSE Undefined

\* ------------------------------------------------------------------------
\* The helpers of stringify
\* ------------------------------------------------------------------------
\* getEscapedString without the test for a line feed
getEscapedStringNoLineFeed(value, separator) ==
  IF value.t = "undefined" \/ value.t = "null" THEN <<>>
  ELSE LET str == IF TypeOf(value) = "object" THEN JsonStringify(value)
                  ELSE ToText(value)
       IN IF Includes(str, separator) \/ Includes(str, <<QUOTE>>)
          THEN <<QUOTE>> \o ReplaceAllQuote(str) \o <<QUOTE>>
          ELSE str

\* getEscapedString with value === undefined as its only test for absence
getEscapedStringNullText(value, separator) ==
  IF value.t = "undefined" THEN <<>>
  ELSE LET str == IF TypeOf(value) = "object" /\ value.t # "null" THEN JsonStringify(value)
                  ELSE ToText(value)
       IN IF Includes(str, separator) \/ Includes(str, <<LF>>) \/ Includes(str, <<QUOTE>>)
          THEN <<QUOTE>> \o ReplaceAllQuote(str) \o <<QUOTE>>
          ELSE str

getEscapedString(value, separator) ==
  IF value.t = "undefined" \/ value.t = "null" THEN <<>>
  ELSE LET str == IF TypeOf(value) = "object" THEN JsonStringify(value)
                  ELSE ToText(value)
       IN IF Includes(str, separator) \/ Includes(str, <<LF>>) \/ Includes(str, <<QUOTE>>)
          THEN <<QUOTE>> \o ReplaceAllQuote(str) \o <<QUOTE>>
          ELSE str

\* column[column.length - 1]
LastOf(list) == IF Len(list) = 0 THEN Undefined ELSE list[Len(list)]

\* A column as the caller gives it is [form, prop, header]: form "accessor" is
\* a bare accessor, "list" an array of accessors, "details" a ColumnDetails
\* whose prop is an array and "detailsOne" a ColumnDetails whose prop is one
\* accessor; prop holds the accessors in order, header is Undefined when the
\* ColumnDetails gives none.
normalizeColumn(column) ==
  IF column.form # "accessor"
  THEN IF column.form = "list"
       THEN [header |-> ToText(LastOf(column.prop)), prop |-> column.prop]
       ELSE [header |-> IF TypeOf(column.header) = "string" THEN column.header.s
                        ELSE ToText(LastOf(column.prop)),
             prop |-> column.prop]
  ELSE [header |-> ToText(column.prop[1]), prop |-> column.prop]

\* AccessStep that asks an array for an integer, not for a number
AccessStepIntegerOnly(value, prop) ==
  IF TypeOf(value) # "object" \/ value = Null
  THEN [threw |-> FALSE, value |-> value]
  ELSE IF IsArray(value)
       THEN IF TypeOf(prop) = "number" /\ prop.n % 2 = 0
            THEN [threw |-> FALSE, value |-> ArrayGet(value, prop)]
            ELSE [threw |-> TRUE, value |-> value]
       ELSE [threw |-> FALSE, value |-> ObjectGet(value, prop)]

\* AccessStep that indexes whatever it stands on: a value that is no object
\* has no such member
AccessStepIndexesScalars(value, prop) ==
  IF TypeOf(value) # "object" \/ value = Null
  THEN [threw |-> FALSE, value |-> Undefined]
  ELSE IF IsArray(value)
       THEN IF TypeOf(prop) = "number"
            THEN [threw |-> FALSE, value |-> ArrayGet(value, prop)]
            ELSE [threw |-> TRUE, value |-> value]
       ELSE [threw |-> FALSE, value |-> ObjectGet(value, prop)]

\* One turn of the loop over column.prop
AccessStep(value, prop) ==
  IF TypeOf(value) # "object" \/ value = Null
  THEN [threw |-> FALSE, value |-> value]
  ELSE IF IsArray(value)
       THEN IF TypeOf(prop) = "number"
            THEN [threw |-> FALSE, value |-> ArrayGet(value, prop)]
            ELSE [threw |-> TRUE, value |-> value]
       ELSE [threw |-> FALSE, value |-> ObjectGet(value, prop)]

RECURSIVE WalkPath(_, _, _)
\* The loop over column.prop, from its k-th accessor on
WalkPath(value, path, k) ==
  IF k > Len(path) THEN [threw |-> FALSE, value |-> value]
  ELSE LET r == AccessStep(value, path[k])
       IN IF r.threw THEN r ELSE WalkPath(r.value, path, k + 1)

RECURSIVE ColumnValuesDropUndefined(_, _, _)
\* ColumnValues that pushes a value only when it is defined
ColumnValuesDropUndefined(item, ncols, j) ==
  IF j > Len(ncols) THEN [threw |-> "none", values |-> <<>>]
  ELSE LET r == WalkPath(item, ncols[j].prop, 1)
       IN IF r.threw THEN [threw |-> "accessor", values |-> <<>>]
          ELSE LET rest == ColumnValuesDropUndefined(item, ncols, j + 1)
               IN [threw |-> rest.threw,
                   values |-> (IF r.value = Undefined THEN <<>> ELSE <<r.value>>)
                                \o rest.values]

RECURSIVE ColumnValues(_, _, _)
\* The loop over normalizedColumns, from the j-th column on; values holds
\* what was pushed before a throw
ColumnValues(item, ncols, j) ==
  IF j > Len(ncols) THEN [threw |-> "none", values |-> <<>>]
  ELSE LET r == WalkPath(item, ncols[j].prop, 1)
       IN IF r.threw THEN [threw |-> "accessor", values |-> <<>>]
          ELSE LET rest == ColumnValues(item, ncols, j + 1)
               IN [threw |-> rest.threw, values |-> <<r.value>> \o rest.values]

getValuesFromItem(item, ncols) ==
  IF Len(ncols) > 0 THEN ColumnValues(item, ncols, 1)
  ELSE IF IsArray(item) THEN [threw |-> "none", values |-> item.kids]
  ELSE IF TypeOf(item) = "object" THEN [threw |-> "missing", values |-> <<>>]
  ELSE [threw |-> "none", values |-> <<item>>]

\* ------------------------------------------------------------------------
\* The inputs the model draws from
\* ------------------------------------------------------------------------
RecMixed ==
  Obj(<< <<"a">>, <<"b">>, <<"0">> >>,
      << Str(<<"x", ",", "y">>), Arr(<<Num(2), Str(<<"q", QUOTE>>), Undefined>>), Bool(TRUE) >>)

RecList == Arr(<< Str(<<"a", LF>>), Null, Arr(<<Str(<<"z">>)>>) >>)

RecNested ==
  Obj(<< <<"a">>, <<"b">> >>, << Obj(<< <<"b">> >>, <<Num(3)>>), Null >>)

RecEmptyList == Arr(<<>>)

RecText == Str(<<"s", ";">>)

RecNumber == Num(0 - 3)

Records == {RecMixed, RecList, RecNested, RecEmptyList, RecText, RecNumber, Null}

Col(form, prop, header) == [form |-> form, prop |-> prop, header |-> header]

ColumnSpecs ==
  << Col("accessor", <<Str(<<"a">>)>>, Undefined),
     Col("list", <<Str(<<"b">>), Num(2)>>, Undefined),
     Col("accessor", <<Num(3)>>, Undefined),
     Col("details", <<Str(<<"a">>), Str(<<"b">>)>>, Str(<<"h", ",">>)),
     Col("list", <<Num(4), Str(<<"a">>)>>, Undefined),
     Col("detailsOne", <<Num(0)>>, Undefined),
     Col("list", <<>>, Undefined) >>

\* the runs of at most k consecutive entries of ColumnSpecs, taken cyclically
ColumnLists(k) ==
  { [j \in 1..len |-> ColumnSpecs[((start + j - 2) % Len(ColumnSpecs)) + 1]] :
      start \in 1..Len(ColumnSpecs), len \in 0..k }

Separators ==
  { <<",">>, <<",", "y">>, <<>>, <<QUOTE>>, <<";", CR, LF>> }

RECURSIVE SeqsUpTo(_, _)
\* the sequences over S of length at most k
SeqsUpTo(S, k) ==
  IF k = 0 THEN {<<>>}
  ELSE LET shorter == SeqsUpTo(S, k - 1)
       IN shorter \cup {Append(q, x) : q \in {p \in shorter : Len(p) = k - 1}, x \in S}

\* ------------------------------------------------------------------------
\* stringify, one action per step of its body
\* ------------------------------------------------------------------------
NoResult == [returned |-> FALSE, text |-> <<>>]

Init ==
  /\ data \in SeqsUpTo(Records, MaxRecords)
  /\ columns \in ColumnLists(MaxColumns)
  /\ sep \in Separators
  /\ headers \in BOOLEAN
  /\ bom \in BOOLEAN
  /\ pc = "start"
  /\ normalizedColumns = <<>>
  /\ output = <<>>
  /\ idx = 0
  /\ values = <<>>
  /\ fields = <<>>
  /\ error = "none"
  /\ result = NoResult

\* CheckSeparator without the test for CR+LF
CheckSeparatorQuoteOnly ==
  /\ pc = "start"
  /\ IF Includes(sep, <<QUOTE>>)
     THEN pc' = "threw" /\ error' = "separator"
     ELSE pc' = "normalize" /\ error' = error
  /\ UNCHANGED <<inputs, normalizedColumns, output, idx, values, fields, result>>

\* if (sep.includes(QUOTE) || sep.includes(CRLF)) throw new TypeError(...)
CheckSeparator ==
  /\ pc = "start"
  /\ IF Includes(sep, <<QUOTE>>) \/ Includes(sep, CRLF)
     THEN pc' = "threw" /\ error' = "separator"
     ELSE pc' = "normalize" /\ error' = error
  /\ UNCHANGED <<inputs, normalizedColumns, output, idx, values, fields, result>>

\* const normalizedColumns = columns.map(normalizeColumn); let output = "";
NormalizeColumns ==
  /\ pc = "normalize"
  /\ normalizedColumns' = [j \in 1..Len(columns) |-> normalizeColumn(columns[j])]
  /\ output' = <<>>
  /\ pc' = "bom"
  /\ UNCHANGED <<inputs, idx, values, fields, error, result>>

\* if (bom) output += BYTE_ORDER_MARK;
WriteBom ==
  /\ pc = "bom"
  /\ output' = IF bom THEN output \o BYTE_ORDER_MARK ELSE output
  /\ pc' = "header"
  /\ UNCHANGED <<inputs, normalizedColumns, idx, values, fields, error, result>>

\* WriteHeader that looks at headers alone
WriteHeaderWithoutColumns ==
  /\ pc = "header"
  /\ output' =
       IF headers
       THEN output
              \o Join([j \in 1..Len(normalizedColumns) |->
                         getEscapedString(Str(normalizedColumns[j].header), sep)], sep)
              \o CRLF
       ELSE output
  /\ pc' = "rows"
  /\ UNCHANGED <<inputs, normalizedColumns, idx, values, fields, error, result>>

\* if (headers && normalizedColumns.length > 0) { output += ...; output += CRLF; }
WriteHeader ==
  /\ pc = "header"
  /\ output' =
       IF headers /\ Len(normalizedColumns) > 0
       THEN output
              \o Join([j \in 1..Len(normalizedColumns) |->
                         getEscapedString(Str(normalizedColumns[j].header), sep)], sep)
              \o CRLF
       ELSE output
  /\ pc' = "rows"
  /\ UNCHANGED <<inputs, normalizedColumns, idx, values, fields, error, result>>

\* WriteRecord that puts CR+LF between the lines, not after each
WriteRecordLinesJoined ==
  /\ pc = "rows"
  /\ idx < Len(data)
  /\ LET r == getValuesFromItem(data[idx + 1], normalizedColumns)
         escaped == [j \in 1..Len(r.values) |-> getEscapedString(r.values[j], sep)]
     IN IF r.threw # "none"
        THEN /\ pc' = "threw"
             /\ error' = r.threw
             /\ UNCHANGED <<output, idx, values, fields>>
        ELSE /\ values' = r.values
             /\ fields' = escaped
             /\ output' = (IF idx > 0 THEN output \o CRLF ELSE output) \o Join(escaped, sep)
             /\ idx' = idx + 1
             /\ UNCHANGED <<pc, error>>
  /\ UNCHANGED <<inputs, normalizedColumns, result>>

\* One turn of: for (const item of data) { ... }
WriteRecord ==
  /\ pc = "rows"
  /\ idx < Len(data)
  /\ LET r == getValuesFromItem(data[idx + 1], normalizedColumns)
         escaped == [j \in 1..Len(r.values) |-> getEscapedString(r.values[j], sep)]
     IN IF r.threw # "none"
        THEN /\ pc' = "threw"
             /\ error' = r.threw
             /\ UNCHANGED <<output, idx, values, fields>>
        ELSE /\ values' = r.values
             /\ fields' = escaped
             /\ output' = output \o Join(escaped, sep) \o CRLF
             /\ idx' = idx + 1
             /\ UNCHANGED <<pc, error>>
  /\ UNCHANGED <<inputs, normalizedColumns, result>>

\* return output;
Return ==
  /\ pc = "rows"
  /\ idx = Len(data)
  /\ result' = [returned |-> TRUE, text |-> output]
  /\ pc' = "done"
  /\ UNCHANGED <<inputs, normalizedColumns, output, idx, values, fields, error>>

Next ==
  \/ CheckSeparator
  \/ NormalizeColumns
  \/ WriteBom
  \/ WriteHeader
  \/ WriteRecord
  \/ Return

Spec == Init /\ [][Next]_vars

\* ------------------------------------------------------------------------
\* Vocabulary of the properties
\* ------------------------------------------------------------------------
Absent(v) == v.t \in {"undefined", "null"}

ObjectLike(v) == v.t \in {"array", "object"}

HasChar(str, c) == \E i \in 1..Len(str) : str[i] = c

HasCrLf(str) == \E i \in 1..(Len(str) - 1) : str[i] = CR /\ str[i + 1] = LF

\* sub occurs in str, starting at some position
Occurs(sub, str) ==
  \E i \in 1..(Len(str) + 1) :
    /\ i + Len(sub) - 1 <= Len(str)
    /\ \A m \in 1..Len(sub) : str[i + m - 1] = sub[m]

IsPrefix(p, q) == Len(p) <= Len(q) /\ SubSeq(q, 1, Len(p)) = p

IsSuffix(p, q) == Len(p) <= Len(q) /\ SubSeq(q, Len(q) - Len(p) + 1, Len(q)) = p

BadSeparator == HasChar(sep, QUOTE) \/ HasCrLf(sep)

\* the text of a value that is present, before quoting
FieldText(v) == IF ObjectLike(v) THEN JsonStringify(v) ELSE ToText(v)

Wrapped(e) == Len(e) >= 2 /\ e[1] = QUOTE /\ e[Len(e)] = QUOTE

Inner(e) == SubSeq(e, 2, Len(e) - 1)

RECURSIVE WellDoubled(_)
\* every double-quote of str is one of a pair
WellDoubled(str) ==
  IF str = <<>> THEN TRUE
  ELSE IF Head(str) # QUOTE THEN WellDoubled(Tail(str))
  ELSE Len(str) >= 2 /\ str[2] = QUOTE /\ WellDoubled(Tail(Tail(str)))

RECURSIVE Undoubled(_)
\* str with each pair of double-quotes read as one
Undoubled(str) ==
  IF str = <<>> THEN <<>>
  ELSE IF Head(str) = QUOTE /\ Len(str) >= 2
       THEN <<QUOTE>> \o Undoubled(Tail(Tail(str)))
       ELSE <<Head(str)>> \o Undoubled(Tail(str))

RECURSIVE Reach(_, _, _)
\* the value the walk along path stands on after k accessors: an array is
\* indexed by a number, a plain object by a key, anything else stays
Reach(item, path, k) ==
  IF k = 0 THEN item
  ELSE LET prev == Reach(item, path, k - 1)
       IN IF prev.t = "array"
          THEN IF path[k].t = "number" THEN ArrayGet(prev, path[k]) ELSE Undefined
          ELSE IF prev.t = "object" THEN ObjectGet(prev, path[k])
          ELSE prev

\* an accessor that is a string meets an array on the walk
StringOnArray(item, path) ==
  \E k \in 1..Len(path) : Reach(item, path, k - 1).t = "array" /\ path[k].t = "string"

IsInteger(prop) == prop.t = "number" /\ prop.n % 2 = 0

\* an accessor that is not an integer meets an array on the walk
NonIntegerOnArray(item, path) ==
  \E k \in 1..Len(path) : Reach(item, path, k - 1).t = "array" /\ ~IsInteger(path[k])

\* the walk stands on something that is no object while accessors remain
DeadEndAt(item, path, k) == k < Len(path) /\ ~ObjectLike(Reach(item, path, k))

PathOf(j) == normalizedColumns[j].prop

\* the loop over data has been entered
InRows == pc \in {"rows", "done"} \/ (pc = "threw" /\ error # "separator")

BomText == IF bom THEN BYTE_ORDER_MARK ELSE <<>>

HeaderLine ==
  Join([j \in 1..Len(normalizedColumns) |->
          getEscapedString(Str(normalizedColumns[j].header), sep)], sep) \o CRLF

HeaderText == IF headers /\ Len(columns) > 0 THEN HeaderLine ELSE <<>>

RowLine(i) ==
  LET vs == getValuesFromItem(data[i], normalizedColumns).values
  IN Join([j \in 1..Len(vs) |-> getEscapedString(vs[j], sep)], sep) \o CRLF

RECURSIVE RowLines(_)
\* the lines of the first i records
RowLines(i) == IF i = 0 THEN <<>> ELSE RowLines(i - 1) \o RowLine(i)

\* ------------------------------------------------------------------------
\* C1: a separator holding a double-quote or CR+LF makes stringify throw the
\* separator error at once: no column is normalized, no record is resolved
\* or escaped, no text is produced or returned, whatever the data holds.
\* ------------------------------------------------------------------------
C1_SeparatorRejectedFirst ==
  BadSeparator =>
    /\ pc \in {"start", "threw"}
    /\ pc = "threw" => error = "separator"
    /\ normalizedColumns = <<>>
    /\ output = <<>>
    /\ idx = 0
    /\ values = <<>>
    /\ fields = <<>>
    /\ result = NoResult

\* the separator error is raised although the first record would raise the
\* accessor error or the missing-accessor error
C1_Witness ==
  /\ BadSeparator
  /\ pc = "threw"
  /\ error = "separator"
  /\ Len(data) > 0
  /\ \/ Len(columns) = 0 /\ data[1].t = "object"
     \/ Len(columns) > 0 /\ data[1].t = "array" /\ columns[1].prop # <<>>
          /\ columns[1].prop[1].t = "string"

\* ------------------------------------------------------------------------
\* C2: an escaped field is wrapped in double-quotes exactly when its text
\* holds the separator, a line feed or a double-quote; wrapped, its inside
\* has every double-quote doubled and reads back as the text; not wrapped,
\* it is the text; an absent value gives the empty text.
\* ------------------------------------------------------------------------
C2_QuotingRule ==
  (idx >= 1 /\ Len(fields) = Len(values)) =>
    \A j \in 1..Len(values) :
      LET e == fields[j]
          str == FieldText(values[j])
      IN IF Absent(values[j]) THEN e = <<>>
         ELSE /\ Wrapped(e) <=> (Occurs(sep, str) \/ HasChar(str, LF) \/ HasChar(str, QUOTE))
              /\ Wrapped(e) => WellDoubled(Inner(e)) /\ Undoubled(Inner(e)) = str
              /\ ~Wrapped(e) => e = str

\* one row holds a wrapped field with a double-quote in its text, a field
\* left as it is, and an absent value
C2_Witness ==
  /\ idx >= 1
  /\ Len(fields) = Len(values)
  /\ \E j \in 1..Len(values) :
       ~Absent(values[j]) /\ HasChar(FieldText(values[j]), QUOTE) /\ Wrapped(fields[j])
  /\ \E j \in 1..Len(values) :
       \/ Absent(values[j]) /\ fields[j] = <<>>
       \/ ~Absent(values[j]) /\ ~Wrapped(fields[j]) /\ fields[j] # <<>>

\* ------------------------------------------------------------------------
\* C3: the header line is written exactly when headers is true and columns
\* is not empty; it is the headers of the normalized columns, in order,
\* escaped like data values, joined by the separator and ended by CR+LF;
\* without columns no header line is written.
\* ------------------------------------------------------------------------
C3_HeaderLine ==
  InRows =>
    /\ IsPrefix(BomText \o HeaderText, output)
    /\ idx = 0 => output = BomText \o HeaderText
    /\ Len(columns) = 0 => IsPrefix(BomText \o RowLines(idx), output)
    /\ result.returned => IsPrefix(BomText \o HeaderText, result.text)

C3_Witness ==
  /\ pc = "done"
  /\ headers
  /\ Len(columns) = 2
  /\ Len(data) > 0
  /\ IsPrefix(BomText \o HeaderLine, result.text)

\* ------------------------------------------------------------------------
\* C4: a record serialized without error gives as many fields as there are
\* normalized columns when columns are given, and without columns as many
\* as the record has elements if it is an array, one if it is a scalar.
\* ------------------------------------------------------------------------
C4_FieldCount ==
  (idx >= 1 /\ pc \in {"rows", "done", "threw"}) =>
    LET item == data[idx]
    IN /\ Len(fields) = Len(values)
       /\ IsSuffix(Join(fields, sep) \o CRLF, output)
       /\ Len(columns) > 0 =>
            Len(values) = Len(normalizedColumns) /\ Len(values) = Len(columns)
       /\ (Len(columns) = 0 /\ item.t = "array") => Len(values) = Len(item.kids)
       /\ (Len(columns) = 0 /\ item.t # "array") => Len(values) = 1

\* two columns, one of them resolved to undefined
C4_Witness ==
  /\ idx >= 1
  /\ Len(columns) = 2
  /\ Len(values) = 2
  /\ \E j \in 1..2 : values[j] = Undefined

\* ------------------------------------------------------------------------
\* C5, as stated: whenever an accessor that is not an integer is used to
\* index an array while a record is resolved, stringify throws there; so no
\* record has been serialized on whose walk such an accessor met an array.
\* ------------------------------------------------------------------------
C5_NonIntegerAlwaysThrows ==
  InRows =>
    \A i \in 1..idx : \A j \in 1..Len(normalizedColumns) :
      ~NonIntegerOnArray(data[i], PathOf(j))

\* ------------------------------------------------------------------------
\* C5, amended: whenever an accessor that is a string is used to index an
\* array while a record is resolved, stringify throws the accessor error at
\* that record and returns no text, however many records and the header were
\* written before; an accessor that is a number, integer or not, never
\* raises this error on an array.
\* ------------------------------------------------------------------------
C5_StringAccessorThrows ==
  /\ InRows =>
       \A i \in 1..idx : \A j \in 1..Len(normalizedColumns) :
         ~StringOnArray(data[i], PathOf(j))
  /\ (pc = "threw" /\ error = "accessor") =>
       /\ idx < Len(data)
       /\ \E j \in 1..Len(normalizedColumns) : StringOnArray(data[idx + 1], PathOf(j))
       /\ result = NoResult
  /\ (pc = "rows" /\ idx < Len(data)) => result = NoResult
  /\ result.returned => pc = "done" /\ idx = Len(data) /\ error = "none"

\* the accessor error at the second record, after the header and one line
C5_Witness ==
  /\ pc = "threw"
  /\ error = "accessor"
  /\ idx = 1
  /\ headers
  /\ IsPrefix(BomText \o HeaderLine \o RowLine(1), output)
  /\ \E j \in 1..Len(normalizedColumns) : \E k \in 1..Len(PathOf(j)) :
       Reach(data[1], PathOf(j), k - 1).t = "array" /\ PathOf(j)[k].t = "number"

\* ------------------------------------------------------------------------
\* C6, as stated: without columns, a record that is an array gives its
\* elements as the fields, in order; a record that is a plain object makes
\* stringify throw the missing-accessor error when it is reached; any other
\* record gives one field and raises no error.
\* ------------------------------------------------------------------------
C6_StructuralMode ==
  (InRows /\ Len(columns) = 0) =>
    /\ idx >= 1 =>
         /\ data[idx].t # "object"
         /\ data[idx].t = "array" => values = data[idx].kids
         /\ data[idx].t # "array" => values = <<data[idx]>>
    /\ pc = "threw" => error = "missing" /\ data[idx + 1].t = "object"

\* ------------------------------------------------------------------------
\* C7: a call that returns gives the BOM if asked for, then the header line
\* if one is due, then one line per record in the order of data, each line
\* its fields in column order joined by the separator and ended by CR+LF;
\* output only ever grows at its end; with no data, no columns and no BOM
\* the text is empty.
\* ------------------------------------------------------------------------
C7_OutputShape ==
  /\ [](pc = "done" =>
          /\ result.returned
          /\ result.text = BomText \o HeaderText \o RowLines(Len(data))
          /\ (Len(data) = 0 /\ Len(columns) = 0 /\ ~bom) => result.text = <<>>)
  /\ [][IsPrefix(output, output')]_vars

C7_Witness ==
  /\ pc = "done"
  /\ bom
  /\ headers
  /\ Len(columns) = 2
  /\ Len(data) = 2
  /\ data[1] # data[2]
  /\ result.text = BYTE_ORDER_MARK \o HeaderLine \o RowLine(1) \o RowLine(2)

\* ------------------------------------------------------------------------
\* C8: once the walk stands on something that is no object while accessors
\* remain, the remaining accessors are skipped without error, also a string
\* that an array would reject, and the column resolves to the value the
\* walk stands on.
\* ------------------------------------------------------------------------
C8_DeadEndKeepsValue ==
  /\ (idx >= 1 /\ Len(columns) > 0) =>
       \A j \in 1..Len(normalizedColumns) : \A k \in 0..Len(PathOf(j)) :
         DeadEndAt(data[idx], PathOf(j), k) =>
           /\ j <= Len(values)
           /\ values[j] = Reach(data[idx], PathOf(j), k)
  /\ (pc = "threw" /\ error = "accessor") =>
       \E j \in 1..Len(normalizedColumns) : \E k \in 1..Len(PathOf(j)) :
         /\ Reach(data[idx + 1], PathOf(j), k - 1).t = "array"
         /\ PathOf(j)[k].t = "string"
         /\ \A m \in 0..(k - 1) : ~DeadEndAt(data[idx + 1], PathOf(j), m)

\* a walk that stopped on a string with a string accessor left over
C8_Witness ==
  /\ idx >= 1
  /\ Len(columns) > 0
  /\ \E j \in 1..Len(values) : \E k \in 1..(Len(PathOf(j)) - 1) :
       /\ DeadEndAt(data[idx], PathOf(j), k)
       /\ PathOf(j)[k + 1].t = "string"
       /\ values[j].t = "string"
       /\ values[j] = Reach(data[idx], PathOf(j), k)

C10_NormalizedColumns ==
  (pc \in {"bom", "header", "rows", "done"} \/ (pc = "threw" /\ error # "separator")) =>
    /\ Len(normalizedColumns) = Len(columns)
    /\ \A j \in 1..Len(columns) :
         LET nc == normalizedColumns[j]
         IN /\ nc.prop = columns[j].prop
            /\ Len(nc.prop) > 0
            /\ nc.header =
                 IF columns[j].header.t = "string" THEN columns[j].header.s
                 ELSE ToText(nc.prop[Len(nc.prop)])

====
